---- MODULE Spec2Model ----
(***************************************************************************)
(* vibe-local: push-to-talk dictation.                                     *)
(*                                                                         *)
(* The model follows src/vibe_local:                                       *)
(*   hotkeys.py  HotkeyListener (evdev and pynput variants): the held-key  *)
(*               set, the chord table and the active chord;                *)
(*   audio.py    AudioRecorder and PushToTalkRecorder;                     *)
(*   main.py     VibeLocal._handle_hotkey and the _process_audio worker    *)
(*               threads it starts;                                        *)
(*   history.py  TranscriptionHistory.                                     *)
(*                                                                         *)
(* The specifications share the variables:                                 *)
(*   Spec         the whole program: key events drive the listener, whose  *)
(*                events are handled synchronously by the coordinator;     *)
(*   SpecKeys     the listener alone, over every chord table of Configs;   *)
(*   SpecCoord    the coordinator alone, with hotkey events delivered to   *)
(*                _handle_hotkey in any order;                             *)
(*   SpecSession  PushToTalkRecorder alone, press() and release() called   *)
(*                in any order while the device thread runs                *)
(*                _audio_callback in two steps (test, then append);        *)
(*   SpecRecorder AudioRecorder alone, start() and stop() called in any    *)
(*                order, with the same device thread;                      *)
(*   SpecPipeline one _process_audio call after another, a collaborator    *)
(*                call at a time, over the collaborators' possible results;*)
(*   SpecPipelineFair  the same, each started call scheduled to its end;   *)
(*   SpecEmit     the listener alone, with callbacks registered that may   *)
(*                raise;                                                   *)
(*   SpecHistory  TranscriptionHistory alone, add() and clear() called in  *)
(*                any order, with change callbacks that may raise;         *)
(*   SpecAdders   add() called by several worker threads on a full         *)
(*                history, a statement at a time;                          *)
(*   SpecLock     AudioRecorder alone, start() and stop() a statement at a *)
(*                time, with the recorder's lock;                          *)
(*   SpecFaulty   the whole program on a capture device whose calls may    *)
(*                raise.                                                   *)
(***************************************************************************)
EXTENDS Naturals, Sequences, FiniteSets

VARIABLES
    backend,         \* "evdev" | "pynput": which HotkeyListener class is built
    config,          \* get_config().hotkeys: action name -> list of key names
    hotkeys,         \* HotkeyListener._hotkeys: the parsed chord table
    pressed_keys,    \* HotkeyListener._pressed_keys
    active_hotkey,   \* HotkeyListener._active_hotkey
    current_action,  \* VibeLocal._current_action
    is_active,       \* PushToTalkRecorder._is_active
    recording,       \* AudioRecorder._recording
    frames,          \* AudioRecorder._frames
    stream,          \* AudioRecorder._stream: TRUE while an InputStream is open
    workers,         \* the running _process_audio threads, in start order
    on_complete,     \* PushToTalkRecorder._on_complete: TRUE when a callback is registered
    open_streams,    \* the InputStreams started and not yet closed
    callback_pc,     \* the device thread in _audio_callback: "idle", "checked"
                     \* once it has found _recording true and not yet appended,
                     \* "stale" when its stream has been closed since
    stop_waits,      \* the capture device: TRUE when InputStream.stop() returns
                     \* only after a running callback has finished
    last_call,       \* history: the latest AudioRecorder call, "start" or "stop"
    calls,           \* history: the calls made by the latest step, in order
    notified,        \* history: the messages the latest step gave to _notify
    returned,        \* history: what release() / stop() returned in the latest step
    pipe,            \* one _process_audio call: its position, its locals and the
                     \* history of the calls it has made
    callbacks,       \* HotkeyListener._callbacks besides VibeLocal._handle_hotkey:
                     \* each callback either returns ("ok") or raises ("raises")
    change_callbacks,\* TranscriptionHistory._callbacks, likewise
    entries,         \* TranscriptionHistory._entries, newest first
    clock,           \* datetime.now(), counted in add() calls
    invoked,         \* history: for each publication of the latest step, the
                     \* callbacks that were invoked, by position
    escaped,         \* history: an exception of a callback left the publisher
    lock,            \* AudioRecorder._lock: "free", or "main" while the thread
                     \* in start() / stop() holds it (the device thread takes
                     \* and returns it within its one append step)
    main_pc,         \* the thread calling start() / stop(), when the methods
                     \* are taken a statement at a time: "idle" between calls
    adders,          \* the threads inside TranscriptionHistory.add, when add()
                     \* is taken a statement at a time: position, entry, slice
    emitted,         \* history: the HotkeyEvents emitted (delivered) by the latest step
    \* history of the key events, kept by SpecKeys only:
    last_key,        \* the key event the latest step handled
    held_raw,        \* the physical keys whose latest event was a press
    round_trip,      \* when the latest two steps were press K, release K: the
                     \* held-key set before the press and after the release
    last_emitted     \* the HotkeyEvent the listener emitted last

vars == <<backend, config, hotkeys, pressed_keys, active_hotkey, current_action,
          is_active, recording, frames, stream, workers, emitted, last_key,
          held_raw, round_trip, on_complete, open_streams, callback_pc,
          stop_waits, last_call, calls, notified, returned, pipe, callbacks,
          change_callbacks, entries, clock, invoked, escaped, lock, main_pc,
          last_emitted, adders>>

listenerVars == <<pressed_keys, active_hotkey>>
histVars == <<last_key, held_raw, round_trip, last_emitted>>
coordVars == <<current_action, is_active, recording, frames, stream, workers,
               on_complete, open_streams, callback_pc, stop_waits, last_call>>
stepVars == <<calls, notified, returned>>
\* the registered callbacks and the transcription history
publishVars == <<callbacks, change_callbacks, entries, clock>>
\* the recorder's lock and the position of the thread inside start() / stop();
\* the threads inside add()
threadVars == <<lock, main_pc, adders>>
\* everything but the _process_audio call under way
programVars == <<backend, config, hotkeys, pressed_keys, active_hotkey,
                 current_action, is_active, recording, frames, stream, workers,
                 emitted, last_key, held_raw, round_trip, on_complete,
                 open_streams, callback_pc, stop_waits, last_call, calls,
                 notified, returned, callbacks, change_callbacks, entries,
                 clock, invoked, escaped, lock, main_pc, last_emitted, adders>>

(***************************************************************************)
(* Bounds.                                                                 *)
(***************************************************************************)
\* frames the capture device delivers within one recording
MaxFrames == 1
\* _process_audio threads alive at the same time
MaxPipelines == 2
\* InputStreams open at the same time when AudioRecorder.start is called directly
MaxStreams == 2
\* blocks one recording holds when the recorder classes run alone
MaxBlocks == 2
\* callbacks registered with one publisher
MaxCallbacks == 2
\* add() calls on the transcription history
MaxAdds == 52
\* worker threads calling add() at the same time
MaxAdders == 2

(***************************************************************************)
(* Values.                                                                 *)
(***************************************************************************)
None == "None"

\* hotkeys.py HotkeyAction
TRANSCRIBE == "TRANSCRIBE"
REWRITE == "REWRITE"
CONTEXT_REPLY == "CONTEXT_REPLY"
HotkeyAction == {TRANSCRIBE, REWRITE, CONTEXT_REPLY}

\* hotkeys.py HotkeyEvent
HotkeyEvent(action, pressed) == [action |-> action, pressed |-> pressed]
HotkeyEvents == {HotkeyEvent(a, p) : a \in HotkeyAction, p \in BOOLEAN}

\* The physical keys of the model's keyboard, by their evdev names.
PhysKeys == {"KEY_LEFTMETA", "KEY_RIGHTMETA", "KEY_LEFTSHIFT",
             "KEY_V", "KEY_R", "KEY_C", "KEY_UNKNOWN"}

\* The modifier class of a physical key: both sides of a modifier share one.
ModClass(k) ==
    CASE k \in {"KEY_LEFTMETA", "KEY_RIGHTMETA"} -> "Super"
      [] k \in {"KEY_LEFTSHIFT", "KEY_RIGHTSHIFT"} -> "Shift"
      [] k \in {"KEY_LEFTCTRL", "KEY_RIGHTCTRL"} -> "Ctrl"
      [] k \in {"KEY_LEFTALT", "KEY_RIGHTALT"} -> "Alt"
      [] OTHER -> k

\* The key names evdev.ecodes defines, among those the model's tables use.
EcodesNames == {"KEY_LEFTMETA", "KEY_RIGHTMETA", "KEY_LEFTSHIFT", "KEY_RIGHTSHIFT",
                "KEY_V", "KEY_R", "KEY_C", "KEY_UNKNOWN"}

\* hotkeys.py KEY_MAP (pynput): config key name -> pynput key
KEY_MAP ==
    [n \in {"KEY_LEFTCTRL", "KEY_RIGHTCTRL", "KEY_LEFTSHIFT", "KEY_RIGHTSHIFT",
            "KEY_LEFTALT", "KEY_RIGHTALT", "KEY_LEFTMETA", "KEY_RIGHTMETA"} |->
        CASE n = "KEY_LEFTCTRL" -> "Key.ctrl_l"
          [] n = "KEY_RIGHTCTRL" -> "Key.ctrl_r"
          [] n = "KEY_LEFTSHIFT" -> "Key.shift_l"
          [] n = "KEY_RIGHTSHIFT" -> "Key.shift_r"
          [] n = "KEY_LEFTALT" -> "Key.alt_l"
          [] n = "KEY_RIGHTALT" -> "Key.alt_r"
          [] n = "KEY_LEFTMETA" -> "Key.cmd"
          [] n = "KEY_RIGHTMETA" -> "Key.cmd_r"]

\* key_name[4:].lower() when it is one character long, else None
\* (pynput _parse_hotkeys, the KEY_<char> branch)
CharOf(key_name) ==
    CASE key_name = "KEY_V" -> "v"
      [] key_name = "KEY_R" -> "r"
      [] key_name = "KEY_C" -> "c"
      [] OTHER -> None

(***************************************************************************)
(* Chord tables (config.hotkeys).                                          *)
(***************************************************************************)
ActionNames == <<"transcribe", "rewrite", "context_reply">>

\* _parse_hotkeys action_map
ActionOf(name) ==
    CASE name = "transcribe" -> TRANSCRIBE
      [] name = "rewrite" -> REWRITE
      [] name = "context_reply" -> CONTEXT_REPLY

\* config.py DEFAULT_CONFIG["hotkeys"]
DefaultHotkeys ==
    [transcribe |-> <<"KEY_LEFTMETA", "KEY_LEFTSHIFT", "KEY_V">>,
     rewrite |-> <<"KEY_LEFTMETA", "KEY_LEFTSHIFT", "KEY_R">>,
     context_reply |-> <<"KEY_LEFTMETA", "KEY_LEFTSHIFT", "KEY_C">>]

\* user tables: nested and identical chords
NestedHotkeys ==
    [transcribe |-> <<"KEY_LEFTMETA", "KEY_LEFTSHIFT">>,
     rewrite |-> <<"KEY_LEFTMETA", "KEY_LEFTSHIFT", "KEY_V">>,
     context_reply |-> <<"KEY_LEFTMETA", "KEY_LEFTSHIFT">>]

\* a right-hand modifier, and an action whose only key name is unknown
RightHotkeys ==
    [transcribe |-> <<"KEY_RIGHTMETA", "KEY_V">>,
     rewrite |-> <<"KEY_LEFTSHIFT", "KEY_R">>,
     context_reply |-> <<"KEY_BOGUS">>]

\* an unknown key name beside a known one
BogusHotkeys ==
    [transcribe |-> <<"KEY_BOGUS", "KEY_V">>,
     rewrite |-> <<"KEY_R">>,
     context_reply |-> <<"KEY_C", "KEY_V">>]

Configs == {DefaultHotkeys, NestedHotkeys, RightHotkeys, BogusHotkeys}

Backends == {"evdev", "pynput"}

(***************************************************************************)
(* HotkeyListener: parsing the chord table.                                *)
(***************************************************************************)
\* the set of elements of a sequence
Range(s) == {s[i] : i \in 1..Len(s)}

\* evdev _parse_hotkeys, inner loop: the codes of the names ecodes defines
\* (a code is written as its name); unknown names are warned about and skipped
EvdevKeys(names) == {n \in Range(names) : n \in EcodesNames}

\* pynput _parse_hotkeys, inner loop: KEY_MAP names, then KEY_<char> names
PynputKeys(names) ==
    {KEY_MAP[n] : n \in {m \in Range(names) : m \in DOMAIN KEY_MAP}}
    \cup {CharOf(n) : n \in {m \in Range(names) :
                                m \notin DOMAIN KEY_MAP /\ CharOf(m) # None}}

\* the key set of one configured action
ChordKeys(be, names) == IF be = "evdev" THEN EvdevKeys(names) ELSE PynputKeys(names)

\* _parse_hotkeys: the table in action_map order, an action with no key left out
RECURSIVE ParseFrom(_, _, _)
ParseFrom(be, cfg, i) ==
    IF i > Len(ActionNames) THEN <<>>
    ELSE LET keys == ChordKeys(be, cfg[ActionNames[i]])
             rest == ParseFrom(be, cfg, i + 1)
         IN  IF keys # {}
             THEN <<[action |-> ActionOf(ActionNames[i]), keys |-> keys]>> \o rest
             ELSE rest

\* mutant: the table is walked in the reverse of action_map's order
ParseHotkeysReversed(be, cfg) ==
    LET t == ParseFrom(be, cfg, 1)
    IN  [i \in 1..Len(t) |-> t[Len(t) + 1 - i]]

\* mutant: the "if keys" test left out: an action whose names resolve to no
\* key stays in the table with an empty key set
ParseHotkeysKeepEmpty(be, cfg) ==
    [i \in 1..Len(ActionNames) |->
        [action |-> ActionOf(ActionNames[i]),
         keys |-> ChordKeys(be, cfg[ActionNames[i]])]]

ParseHotkeys(be, cfg) == ParseFrom(be, cfg, 1)

(***************************************************************************)
(* HotkeyListener: key events.                                             *)
(***************************************************************************)
\* What the key-event source hands the listener for a physical key: the
\* event code on evdev; a pynput Key or KeyCode, or None for a key pynput
\* cannot identify.
RawKey(be, k) ==
    IF be = "evdev" THEN k
    ELSE CASE k = "KEY_LEFTMETA" -> "Key.cmd"
           [] k = "KEY_RIGHTMETA" -> "Key.cmd_r"
           [] k = "KEY_LEFTSHIFT" -> "Key.shift_l"
           [] k \in {"KEY_V", "KEY_R", "KEY_C"} -> CharOf(k)
           [] OTHER -> None

\* pynput _normalize_key
NormalizeKey(key) ==
    CASE key \in {"Key.ctrl_l", "Key.ctrl_r"} -> "Key.ctrl_l"
      [] key \in {"Key.shift_l", "Key.shift_r"} -> "Key.shift_l"
      [] key \in {"Key.alt_l", "Key.alt_r"} -> "Key.alt_l"
      [] key \in {"Key.cmd", "Key.cmd_r"} -> "Key.cmd"
      [] OTHER -> key

\* The identity under which a key event enters _pressed_keys: evdev's
\* _read_device uses event.code as it is, pynput's _on_press/_on_release
\* use _normalize_key(key). None: the event is dropped.
KeyIdentity(be, k) ==
    IF be = "evdev" THEN RawKey(be, k) ELSE NormalizeKey(RawKey(be, k))

\* mutant: the "self._active_hotkey is None" test left out
MayActivateNoSticky(is_press, active) == is_press

\* _check_hotkeys, line 109/261: a satisfied chord is taken on a press while idle
MayActivate(is_press, active) == is_press /\ active = None

\* mutant: the test of the active chord left out: every chord that is not
\* fully held is released at a key release
MustReleaseUnheld(action, active, is_press) == ~is_press

\* mutant: the "action == self._active_hotkey" test left out
MustReleaseAny(action, active, is_press) == active # None /\ ~is_press

\* _check_hotkeys, line 112/264: the active chord, no longer satisfied, on a release
MustRelease(action, active, is_press) == action = active /\ ~is_press

\* _check_hotkeys: one pass over the table in order; st = [active, out]
RECURSIVE CheckFrom(_, _, _, _, _)
CheckFrom(table, i, pressed, is_press, st) ==
    IF i > Len(table) THEN st
    ELSE LET action == table[i].action
             keys == table[i].keys
             st2 == IF keys \subseteq pressed
                    THEN IF MayActivate(is_press, st.active)
                         THEN [active |-> action,
                               out |-> Append(st.out, HotkeyEvent(action, TRUE))]
                         ELSE st
                    ELSE IF MustRelease(action, st.active, is_press)
                         THEN [active |-> None,
                               out |-> Append(st.out, HotkeyEvent(action, FALSE))]
                         ELSE st
         IN  CheckFrom(table, i + 1, pressed, is_press, st2)

\* mutant: every chord is tested against the active chord as it was when the
\* pass began, so each satisfied chord is activated in turn
CheckHotkeysSnapshot(table, pressed, active, is_press) ==
    LET hit == SelectSeq(table, LAMBDA ch : ch.keys \subseteq pressed)
    IN  IF MayActivate(is_press, active) /\ hit # <<>>
        THEN [active |-> hit[Len(hit)].action,
              out |-> [i \in 1..Len(hit) |-> HotkeyEvent(hit[i].action, TRUE)]]
        ELSE CheckFrom(table, 1, pressed, is_press, [active |-> active, out |-> <<>>])

CheckHotkeys(table, pressed, active, is_press) ==
    CheckFrom(table, 1, pressed, is_press, [active |-> active, out |-> <<>>])

\* _pressed_keys after the event: add on a press, discard on a release
UpdateKeys(pressed, id, is_press) ==
    IF is_press THEN pressed \cup {id} ELSE pressed \ {id}

\* mutant: the "if normalized" test left out
ListenerStepNoGuard(k, is_press) ==
    LET id == KeyIdentity(backend, k)
        pk == UpdateKeys(pressed_keys, id, is_press)
        r == CheckHotkeys(hotkeys, pk, active_hotkey, is_press)
    IN  [pressed |-> pk, active |-> r.active, out |-> r.out]

\* _read_device (evdev) / _on_press, _on_release (pynput): the listener's
\* state after the key event and the events it emits
ListenerStep(k, is_press) ==
    LET id == KeyIdentity(backend, k)
    IN  IF id = None
        THEN [pressed |-> pressed_keys, active |-> active_hotkey, out |-> <<>>]
        ELSE LET pk == UpdateKeys(pressed_keys, id, is_press)
                 r == CheckHotkeys(hotkeys, pk, active_hotkey, is_press)
             IN  [pressed |-> pk, active |-> r.active, out |-> r.out]

(***************************************************************************)
(* AudioRecorder and PushToTalkRecorder (audio.py).  The operators work on *)
(* a record c of the coordinator's side of the state:                      *)
(*   [current_action, is_active, recording, frames, stream, workers, ...], *)
(* with the calls, notifications and return value of the step under way,   *)
(* what the capture device does in this step (device: "ok", "open_fails"   *)
(* when sd.InputStream(...) raises, "stop_fails" when stream.stop()        *)
(* raises) and whether an exception is on its way up (raising).            *)
(***************************************************************************)
\* what the capture device may do during one key event
DeviceOutcomes == {"ok", "open_fails", "stop_fails"}

\* no release() / stop() call in the step
NoReturn == [called |-> FALSE, is_none |-> FALSE, raised |-> FALSE, audio |-> <<>>]

\* the outcome r of a release() / stop() call, as the step's return value
Returned(r) ==
    [called |-> TRUE, is_none |-> r.is_none, raised |-> r.raised, audio |-> r.audio]

Coord == [current_action |-> current_action, is_active |-> is_active,
          recording |-> recording, frames |-> frames, stream |-> stream,
          workers |-> workers, on_complete |-> on_complete,
          open_streams |-> open_streams, callback_pc |-> callback_pc,
          stop_waits |-> stop_waits, last_call |-> last_call,
          calls |-> <<>>, notified |-> <<>>, returned |-> NoReturn,
          device |-> "ok", raising |-> FALSE]

\* AudioRecorder.start: reset the frames under the lock, open and start a stream
RecorderStart(c) ==
    IF c.device = "open_fails"
    THEN [c EXCEPT !.frames = <<>>, !.recording = TRUE,
                   !.calls = Append(@, "start"),
                   !.last_call = "start",
                   !.raising = TRUE]
    ELSE [c EXCEPT !.frames = <<>>, !.recording = TRUE, !.stream = TRUE,
                   !.open_streams = @ + 1,
                   !.calls = @ \o <<"start", "stream.start">>,
                   !.last_call = "start"]

\* the block of a callback whose stream was closed before it appended; the
\* other blocks are numbered by their place in the buffer
StaleBlock == 0

\* the sequence s back to front
Reverse(s) == [i \in 1..Len(s) |-> s[Len(s) + 1 - i]]

\* mutant: the frames concatenated newest first
ConcatenateReversed(fr) ==
    [raised |-> fr = <<>>, audio |-> Reverse(fr)]

\* np.concatenate(self._frames): the frames in order; an empty list raises
\* ValueError
Concatenate(fr) ==
    [raised |-> fr = <<>>, audio |-> fr]

\* mutant: the "if not self._frames" test left out
StopResultNoGuard(fr) == Concatenate(fr)

\* AudioRecorder.stop, lines 55-65: an empty buffer when no frame is held,
\* else the concatenation of the frames
StopResult(fr) ==
    IF fr = <<>> THEN [raised |-> FALSE, audio |-> <<>>] ELSE Concatenate(fr)

\* AudioRecorder.stop: clear _recording, stop and close the stream if one is
\* open, take the frames under the lock.  When the device's stop() waits for
\* a running callback, a callback that already found _recording true appends
\* its block before the frames are taken.  When it does not wait, that
\* callback outlives the only open stream ("stale").
\* is_none: the caller gets Python's None instead of a buffer.
\* When stream.stop() raises, stop() ends there: _recording is cleared, the
\* stream and the frames stay.
RecorderStop(c) ==
    IF c.stream /\ c.device = "stop_fails"
    THEN [state |-> [c EXCEPT !.recording = FALSE,
                              !.calls = Append(@, "stop"),
                              !.last_call = "stop",
                              !.raising = TRUE],
          is_none |-> FALSE,
          raised |-> TRUE,
          audio |-> <<>>]
    ELSE
    LET finishes == c.stop_waits /\ c.stream /\ c.callback_pc = "checked"
        outlives == ~c.stop_waits /\ c.stream /\ c.callback_pc = "checked"
                        /\ c.open_streams = 1
        fr == IF finishes THEN Append(c.frames, Len(c.frames) + 1) ELSE c.frames
        res == StopResult(fr)
    IN  [state |-> [c EXCEPT !.recording = FALSE, !.stream = FALSE,
                             !.open_streams = IF c.stream THEN @ - 1 ELSE @,
                             !.callback_pc = IF finishes THEN "idle"
                                             ELSE IF outlives THEN "stale" ELSE @,
                             !.frames = IF res.raised THEN fr ELSE <<>>,
                             !.calls = @ \o (IF c.stream
                                             THEN <<"stop", "stream.close">>
                                             ELSE <<"stop">>),
                             !.last_call = "stop"],
         is_none |-> FALSE,
         raised |-> res.raised,
         audio |-> res.audio]

\* mutant: the "if not self._is_active" test left out
PushToTalkPressNoGuard(c) ==
    RecorderStart([c EXCEPT !.is_active = TRUE, !.calls = Append(@, "press")])

\* PushToTalkRecorder.press
PushToTalkPress(c) ==
    IF ~c.is_active
    THEN RecorderStart([c EXCEPT !.is_active = TRUE, !.calls = Append(@, "press")])
    ELSE [c EXCEPT !.calls = Append(@, "press")]

\* mutant: the "len(audio_data) > 0" test left out
ReleaseActiveNoLength(c) ==
    LET r == RecorderStop([c EXCEPT !.is_active = FALSE,
                                     !.calls = Append(@, "release")])
    IN  IF ~r.raised /\ c.on_complete
        THEN [r EXCEPT !.state.calls = Append(@, "on_complete")]
        ELSE r

\* PushToTalkRecorder.release, the active branch: stop(), then the completion
\* callback on a non-empty buffer when one is registered
ReleaseActive(c) ==
    LET r == RecorderStop([c EXCEPT !.is_active = FALSE,
                                     !.calls = Append(@, "release")])
    IN  IF ~r.raised /\ c.on_complete /\ Len(r.audio) > 0
        THEN [r EXCEPT !.state.calls = Append(@, "on_complete")]
        ELSE r

\* mutant: the "if self._is_active" test left out
PushToTalkReleaseNoGuard(c) == ReleaseActive(c)

\* PushToTalkRecorder.release
PushToTalkRelease(c) ==
    IF c.is_active
    THEN ReleaseActive(c)
    ELSE [state |-> [c EXCEPT !.calls = Append(@, "release")],
          is_none |-> TRUE, raised |-> FALSE, audio |-> <<>>]

(***************************************************************************)
(* VibeLocal._handle_hotkey (main.py).                                     *)
(***************************************************************************)
\* action_names, with its "Recording..." default
RecordingMessage(action) ==
    CASE action = TRANSCRIBE -> "Recording..."
      [] action = REWRITE -> "Recording rewrite instruction..."
      [] action = CONTEXT_REPLY -> "Recording reply intent..."
      [] OTHER -> "Recording..."

\* the pressed branch
HandlePressed(c, ev) ==
    LET c1 == PushToTalkPress([c EXCEPT !.current_action = ev.action])
    IN  IF c1.raising THEN c1
        ELSE [c1 EXCEPT !.notified = Append(@, RecordingMessage(ev.action))]

\* mutant: _process_audio is called in the handler itself
PipelineContextInline == "detection"

\* where _process_audio runs: on a thread of its own, lines 72-76
PipelineContext == "worker"

\* the detection thread is inside a pipeline: it handles no key event
DetectionBlocked(ws) == \E i \in 1..Len(ws) : ws[i].context = "detection"

\* mutant: the worker is handed the action as it is after the handler has
\* cleared it
HandleReleasedLateAction(c, ev) ==
    LET r == PushToTalkRelease(c)
        c0 == [r.state EXCEPT !.returned = Returned(r)]
        c1 == IF ~r.is_none /\ Len(r.audio) > 0
              THEN [c0 EXCEPT !.workers =
                        Append(@, [audio |-> r.audio, action |-> None,
                                   context |-> PipelineContext])]
              ELSE c0
    IN  IF r.raised THEN c0 ELSE [c1 EXCEPT !.current_action = None]

\* mutant: current_action is cleared only when a pipeline was started
HandleReleasedKeepOnEmpty(c, ev) ==
    LET r == PushToTalkRelease(c)
        c0 == [r.state EXCEPT !.returned = Returned(r)]
    IN  IF ~r.is_none /\ Len(r.audio) > 0
        THEN [c0 EXCEPT !.workers =
                  Append(@, [audio |-> r.audio, action |-> c.current_action,
                             context |-> PipelineContext]),
                        !.current_action = None]
        ELSE c0

\* the released branch: stop the recording, start a _process_audio thread on
\* non-empty audio with (audio_data, self._current_action), clear the action
\* (an exception of release() leaves the handler at once)
HandleReleased(c, ev) ==
    LET r == PushToTalkRelease(c)
        c0 == [r.state EXCEPT !.returned = Returned(r)]
        c1 == IF ~r.is_none /\ Len(r.audio) > 0
              THEN [c0 EXCEPT !.workers =
                        Append(@, [audio |-> r.audio, action |-> c.current_action,
                                   context |-> PipelineContext])]
              ELSE c0
    IN  IF r.raised THEN [c0 EXCEPT !.raising = TRUE]
        ELSE [c1 EXCEPT !.current_action = None]

HandleHotkey(c, ev) ==
    IF ev.pressed THEN HandlePressed(c, ev) ELSE HandleReleased(c, ev)

\* HotkeyListener._emit, for each event of one _check_hotkeys pass: the
\* registered callback (VibeLocal._handle_hotkey) runs on the listener's
\* thread; an exception it raises is caught by _emit
RECURSIVE EmitAll(_, _)
EmitAll(c, events) ==
    IF events = <<>> THEN c
    ELSE EmitAll([HandleHotkey(c, Head(events)) EXCEPT !.raising = FALSE],
                 Tail(events))

(***************************************************************************)
(* VibeLocal._process_audio (main.py), one collaborator call at a time.    *)
(* pipe.log lists the calls made so far: the collaborator or "notify", its *)
(* arguments a1..a3 and what it returned.                                  *)
(***************************************************************************)
Call(op, a1, a2, a3, ret) == [op |-> op, a1 |-> a1, a2 |-> a2, a3 |-> a3, ret |-> ret]

\* self._notify(message); a message built from a text is (head, text)
Notify(head, text) == Call("notify", head, text, "", "")

\* no _process_audio call yet
\* (error: str(e) of a caught exception, as its sequence of characters;
\* error_shown: the part of it given to _notify)
NoPipe == [pc |-> "none", action |-> None, raised |-> FALSE, text |-> "",
           raw_text |-> "", selection |-> "", result |-> "", log |-> <<>>,
           error |-> <<>>, error_shown |-> <<>>]

\* the characters of str(e) kept in the error notification, line 140
ErrorLimit == 50

\* an exception message of n characters, each written as its position
Message(n) == [i \in 1..n |-> i]

\* the messages an exception may carry: none, at the limit, beyond it
ErrorMessages == {Message(0), Message(ErrorLimit), Message(ErrorLimit + 1)}

\* mutant: the whole message is shown
TruncateNothing(msg) == msg

\* str(e)[:50]
Truncate(msg) == SubSeq(msg, 1, IF Len(msg) < ErrorLimit THEN Len(msg) ELSE ErrorLimit)

\* what the transcription engine may return: nothing, blanks, or words
RawTexts == {"", " ", "hello world"}

\* what the language model may return for a clean-up (the text changed or
\* not), a rewrite, a reply (some text or none)
ImprovedTexts == {"Hello world.", "hello world"}
RewrittenTexts == {"rewritten text", ""}
ReplyTexts == {"reply text", ""}

\* what the selection and the clipboard may hold
Selections == {"", "selected text"}
Clipboards == {"", "clipboard text"}

\* mutant: the text is tested as it is, not stripped
StripNothing(t) == t

\* str.strip(), on the texts of the model
Strip(t) == IF t = " " THEN "" ELSE t

\* mutant: the clipboard is read whatever the selection holds
NeedsClipboardAlways(selection) == TRUE

\* "if not selection", line 110: fall back to the clipboard
NeedsClipboard(selection) == selection = ""

\* mutant: the spoken text is typed, not the engine's result
TypedTextSpoken(p) == p.text

\* the text handed to type_text, lines 104, 122, 136
TypedText(p) == IF p.action = TRANSCRIBE THEN p.text ELSE p.result

\* mutant: the history entry is built from the cleaned text alone
HistoryArgsFinalOnly(p) ==
    CASE p.action = TRANSCRIBE -> <<p.text, p.text, "transcribe">>
      [] p.action = REWRITE -> <<p.result, p.result, "rewrite">>
      [] OTHER -> <<p.result, p.result, "context_reply">>

\* the arguments of get_history().add, lines 105, 123, 137
HistoryArgs(p) ==
    CASE p.action = TRANSCRIBE -> <<p.raw_text, p.text, "transcribe">>
      [] p.action = REWRITE -> <<p.text, p.result, "rewrite">>
      [] OTHER -> <<p.text, p.result, "context_reply">>

\* mutant: no except clause: the exception ends the thread
RaiseUncaught(p, op, msg) ==
    [p EXCEPT !.pc = "uncaught", !.raised = TRUE, !.error = msg,
              !.log = Append(@, Call(op, "", "", "", "raise"))]

\* the collaborator raised an exception with message msg: the except clause
\* of line 139 notifies the error and _process_audio returns
Raise(p, op, msg) ==
    [p EXCEPT !.pc = "done", !.raised = TRUE,
              !.error = msg, !.error_shown = Truncate(msg),
              !.log = @ \o <<Call(op, "", "", "", "raise"), Notify("Error: ", op)>>]

\* lines 83-84: the thread starts on (audio_data, action)
Begin(action) ==
    [NoPipe EXCEPT !.pc = "transcribe", !.action = action,
                   !.log = <<Notify("Transcribing...", "")>>]

\* lines 87-98: transcribe, the blank test, and the branch on the action
AfterTranscribe(p, text) ==
    LET p1 == [p EXCEPT !.text = text,
                        !.log = Append(@, Call("transcribe", "audio", "", "", text))]
    IN  IF Strip(text) = ""
        THEN [p1 EXCEPT !.pc = "done",
                        !.log = Append(@, Notify("No speech detected", ""))]
        ELSE CASE p.action = TRANSCRIBE ->
                    [p1 EXCEPT !.pc = "improve_transcription", !.raw_text = text,
                               !.log = Append(@, Notify("Cleaning up...", ""))]
               [] p.action = REWRITE -> [p1 EXCEPT !.pc = "get_selection"]
               [] OTHER -> [p1 EXCEPT !.pc = "get_clipboard"]

\* lines 100-103
AfterImprove(p, clean) ==
    [p EXCEPT !.pc = "type_text", !.text = clean,
              !.log = @ \o <<Call("improve_transcription", p.text, "", "", clean),
                             Notify("Typing: ", clean)>>]

\* lines 109-119
AfterSelection(p, selection) ==
    LET p1 == [p EXCEPT !.selection = selection,
                        !.log = Append(@, Call("get_selection", "", "", "", selection))]
    IN  IF NeedsClipboard(selection)
        THEN [p1 EXCEPT !.pc = "get_clipboard"]
        ELSE [p1 EXCEPT !.pc = "rewrite", !.log = Append(@, Notify("Rewriting...", ""))]

\* lines 112-119 (rewrite) and 127-133 (context_reply)
AfterClipboard(p, clip) ==
    LET p1 == [p EXCEPT !.selection = clip,
                        !.log = Append(@, Call("get_clipboard", "", "", "", clip))]
    IN  IF p.action = REWRITE
        THEN IF clip = ""
             THEN [p1 EXCEPT !.pc = "done",
                             !.log = Append(@, Notify("No text selected to rewrite", ""))]
             ELSE [p1 EXCEPT !.pc = "rewrite",
                             !.log = Append(@, Notify("Rewriting...", ""))]
        ELSE IF clip = ""
             THEN [p1 EXCEPT !.pc = "done",
                             !.log = Append(@, Notify("No context in clipboard", ""))]
             ELSE [p1 EXCEPT !.pc = "context_reply",
                             !.log = Append(@, Notify("Generating reply...", ""))]

\* lines 120-121 (rewrite) and 134-135 (context_reply)
AfterEngine(p, op, result) ==
    [p EXCEPT !.pc = "type_text", !.result = result,
              !.log = @ \o <<Call(op, p.selection, p.text, "", result),
                             Notify("Typing: ", result)>>]

\* lines 104, 122, 136: the value type_text returns is not looked at
AfterTypeText(p, ok) ==
    [p EXCEPT !.pc = "history.add",
              !.log = Append(@, Call("type_text", TypedText(p), "", "",
                                     IF ok THEN "True" ELSE "False"))]

\* lines 105, 123, 137
AfterHistoryAdd(p) ==
    LET args == HistoryArgs(p)
    IN  [p EXCEPT !.pc = "done",
                  !.log = Append(@, Call("history.add", args[1], args[2], args[3], ""))]

(***************************************************************************)
(* Publishing to callbacks: HotkeyListener._emit (hotkeys.py) and the      *)
(* loops of TranscriptionHistory.add / clear (history.py).                 *)
(***************************************************************************)
\* the lists of callbacks a publisher may hold
CallbackLists == UNION {[1..n -> {"ok", "raises"}] : n \in 0..MaxCallbacks}

\* mutant: no try/except around the call: the first exception ends the loop
\* and leaves the publisher
InvokeAllNoCatch(cbs) ==
    LET bad == {i \in 1..Len(cbs) : cbs[i] = "raises"}
        last == IF bad = {} THEN Len(cbs)
                ELSE CHOOSE i \in bad : \A j \in bad : i <= j
    IN  [invoked |-> [i \in 1..last |-> i], escaped |-> bad # {}]

\* "for callback in self._callbacks: try: callback(...) except Exception":
\* every callback is called in order, an exception is swallowed
InvokeAll(cbs) ==
    [invoked |-> [i \in 1..Len(cbs) |-> i], escaped |-> FALSE]

\* one publication by publisher pub ("hotkey" or "history")
Publication(pub, cbs) ==
    LET r == InvokeAll(cbs)
    IN  [of |-> pub, invoked |-> r.invoked, escaped |-> r.escaped]

(***************************************************************************)
(* TranscriptionHistory (history.py).                                      *)
(***************************************************************************)
\* TranscriptionHistory.__init__: max_entries
max_entries == 50

\* HistoryEntry
HistoryEntry(timestamp, raw_text, final_text, action) ==
    [timestamp |-> timestamp, raw_text |-> raw_text, final_text |-> final_text,
     action |-> action]

\* mutant: the trim keeps the tail of the list
HistoryAddKeepOldest(es, entry) ==
    LET ins == <<entry>> \o es
    IN  IF Len(ins) > max_entries THEN SubSeq(ins, 2, Len(ins)) ELSE ins

\* the history after n add() calls made one after the other
FilledHistory(n) ==
    LET len == IF n > max_entries THEN max_entries ELSE n
    IN  [i \in 1..len |->
            HistoryEntry(n + 1 - i, "hello world", "Hello world.", "transcribe")]

\* a thread outside add()
NoAdder == [pc |-> "idle", entry |-> HistoryEntry(0, "", "", ""), slice |-> <<>>]

\* add, lines 41-45: insert at the front, trim to max_entries
HistoryAdd(es, entry) ==
    LET ins == <<entry>> \o es
    IN  IF Len(ins) > max_entries THEN SubSeq(ins, 1, max_entries) ELSE ins

(***************************************************************************)
(* Initial states.                                                         *)
(***************************************************************************)
NoKey == [key |-> None, is_press |-> FALSE]
NoRoundTrip == [phase |-> "none", before |-> {}, after |-> {}]
\* no HotkeyEvent emitted yet
NoEvent == [action |-> None, pressed |-> FALSE]

\* completes: whether an on_complete callback is registered; waits: whether
\* the device's stop() waits for a running callback
\* cbs, ccbs: the callback lists of the listener and of the history
\* adds: the add() calls the history has seen
InitProgram(cfgs, completes, waits, cbs, ccbs, adds) ==
    /\ backend \in Backends
    /\ config \in cfgs
    /\ hotkeys = ParseHotkeys(backend, config)
    /\ pressed_keys = {}
    /\ active_hotkey = None
    /\ current_action = None
    /\ is_active = FALSE
    /\ recording = FALSE
    /\ frames = <<>>
    /\ stream = FALSE
    /\ workers = <<>>
    /\ on_complete \in completes
    /\ open_streams = 0
    /\ callback_pc = "idle"
    /\ stop_waits \in waits
    /\ last_call = "none"
    /\ calls = <<>>
    /\ notified = <<>>
    /\ returned = NoReturn
    /\ pipe = NoPipe
    /\ callbacks \in cbs
    /\ change_callbacks \in ccbs
    /\ clock \in adds
    /\ entries = FilledHistory(clock)
    /\ invoked = <<>>
    /\ escaped = FALSE
    /\ lock = "free"
    /\ main_pc = "idle"
    /\ adders = [t \in 1..MaxAdders |-> NoAdder]
    /\ emitted = <<>>
    /\ last_key = NoKey
    /\ held_raw = {}
    /\ round_trip = NoRoundTrip
    /\ last_emitted = NoEvent

\* a new history
InitPublishers(cfgs, completes, waits, cbs, ccbs) ==
    InitProgram(cfgs, completes, waits, cbs, ccbs, {0})

\* no callback registered besides the coordinator's
InitDevice(cfgs, completes, waits) ==
    InitPublishers(cfgs, completes, waits, {<<>>}, {<<>>})

\* VibeLocal builds PushToTalkRecorder() with no callback; the specifications
\* that take _audio_callback as one step need no choice of the device's stop()
InitWith(cfgs) == InitDevice(cfgs, {FALSE}, {TRUE})

\* the program as shipped: the default chord table
Init == InitWith({DefaultHotkeys})

\* the listener over every chord table of the model
InitKeys == InitWith(Configs)

\* the recorder classes alone, with or without a completion callback, on a
\* device of either kind
InitAudio == InitDevice({DefaultHotkeys}, BOOLEAN, BOOLEAN)

\* the listener with callbacks registered that may raise
InitEmit == InitPublishers({DefaultHotkeys}, {FALSE}, {TRUE}, CallbackLists, {<<>>})

\* a history at its cap, or one entry short of it
InitHistoryFull ==
    InitProgram({DefaultHotkeys}, {FALSE}, {TRUE}, {<<>>}, {<<>>},
                {max_entries - 1, max_entries})

\* the history with change callbacks registered that may raise
InitHistory == InitPublishers({DefaultHotkeys}, {FALSE}, {TRUE}, {<<>>}, CallbackLists)

(***************************************************************************)
(* Actions.                                                                *)
(***************************************************************************)
SetCoord(c) ==
    /\ current_action' = c.current_action
    /\ is_active' = c.is_active
    /\ recording' = c.recording
    /\ frames' = c.frames
    /\ stream' = c.stream
    /\ workers' = c.workers
    /\ on_complete' = c.on_complete
    /\ open_streams' = c.open_streams
    /\ callback_pc' = c.callback_pc
    /\ stop_waits' = c.stop_waits
    /\ last_call' = c.last_call
    /\ calls' = c.calls
    /\ notified' = c.notified
    /\ returned' = c.returned

\* a step that publishes nothing to the callbacks of the model
NoPublish ==
    /\ invoked' = <<>>
    /\ escaped' = FALSE

\* a step that runs none of the coordinator's or the recorder's methods
ClearStep ==
    /\ calls' = <<>>
    /\ notified' = <<>>
    /\ returned' = NoReturn

\* the history variables of a key event
KeyHistory(k, is_press) ==
    /\ last_key' = [key |-> k, is_press |-> is_press]
    /\ held_raw' = IF is_press THEN held_raw \cup {k} ELSE held_raw \ {k}
    /\ round_trip' =
          IF ~is_press /\ last_key = [key |-> k, is_press |-> TRUE]
          THEN [phase |-> "released", before |-> round_trip.before,
                after |-> pressed_keys']
          ELSE IF is_press
               THEN [phase |-> "pressed", before |-> pressed_keys, after |-> {}]
               ELSE NoRoundTrip

\* A key event reaches the listener, alone: its events are published to the
\* callbacks registered besides the coordinator's, if any.
ListenerEvent(k, is_press) ==
    LET r == ListenerStep(k, is_press)
    IN  /\ pressed_keys' = r.pressed
        /\ active_hotkey' = r.active
        /\ emitted' = r.out
        /\ UNCHANGED <<backend, config, hotkeys>>
        /\ UNCHANGED coordVars
        /\ ClearStep
        /\ UNCHANGED pipe
        /\ invoked' = [j \in 1..Len(r.out) |-> Publication("hotkey", callbacks)]
        /\ escaped' = \E j \in 1..Len(r.out) : Publication("hotkey", callbacks).escaped
        /\ UNCHANGED publishVars
        /\ UNCHANGED threadVars

\* the same, with the history of the key events kept
ListenerKey(k, is_press) ==
    /\ ListenerEvent(k, is_press)
    /\ KeyHistory(k, is_press)
    /\ last_emitted' = IF emitted' = <<>> THEN last_emitted
                       ELSE emitted'[Len(emitted')]

\* the same, published to the registered callbacks, no history kept
EmitKey(k, is_press) ==
    /\ ListenerEvent(k, is_press)
    /\ UNCHANGED histVars

EmitPressed == \E k \in PhysKeys : EmitKey(k, TRUE)
EmitReleased == \E k \in PhysKeys : EmitKey(k, FALSE)

KeyPressed == \E k \in PhysKeys : ListenerKey(k, TRUE)
KeyReleased == \E k \in PhysKeys : ListenerKey(k, FALSE)

\* A key event in the whole program: the listener's pass, each emitted event
\* handled by VibeLocal._handle_hotkey before the listener returns.
\* d: what the capture device does when it is called during the event.
ProgramKeyOn(k, is_press, d) ==
    LET r == ListenerStep(k, is_press)
        c == EmitAll([Coord EXCEPT !.device = d], r.out)
    IN  /\ ~DetectionBlocked(workers)
        /\ Len(c.workers) <= MaxPipelines
        /\ c.open_streams <= MaxStreams
        /\ pressed_keys' = r.pressed
        /\ active_hotkey' = r.active
        /\ emitted' = r.out
        /\ SetCoord(c)
        /\ UNCHANGED <<backend, config, hotkeys>>
        /\ UNCHANGED histVars
        /\ UNCHANGED pipe
        /\ invoked' = <<>>
        /\ escaped' = c.raising
        /\ UNCHANGED publishVars
        /\ UNCHANGED threadVars

\* the same, on a capture device that works
ProgramKey(k, is_press) == ProgramKeyOn(k, is_press, "ok")

OnPress == \E k \in PhysKeys : ProgramKey(k, TRUE)
OnRelease == \E k \in PhysKeys : ProgramKey(k, FALSE)

\* key events in the whole program on a capture device that may fail (the
\* device is called only by the handler of an emitted event)
FaultyKey(k, is_press) ==
    \E d \in DeviceOutcomes :
        /\ d # "ok" => ListenerStep(k, is_press).out # <<>>
        /\ ProgramKeyOn(k, is_press, d)

FaultyPress == \E k \in PhysKeys : FaultyKey(k, TRUE)
FaultyRelease == \E k \in PhysKeys : FaultyKey(k, FALSE)

\* A hotkey event is delivered to the coordinator's callback directly.
Deliver(ev) ==
    LET c == HandleHotkey(Coord, ev)
    IN  /\ ~DetectionBlocked(workers)
        /\ Len(c.workers) <= MaxPipelines
        /\ SetCoord(c)
        /\ emitted' = <<ev>>
        /\ UNCHANGED <<backend, config, hotkeys>>
        /\ UNCHANGED listenerVars
        /\ UNCHANGED histVars
        /\ UNCHANGED pipe
        /\ NoPublish
        /\ UNCHANGED publishVars
        /\ UNCHANGED threadVars

HandleHotkeyEvent == \E ev \in HotkeyEvents : Deliver(ev)

\* AudioRecorder._audio_callback: the open stream delivers its next block
\* (as one step: the test of _recording and the append)
AudioCallback ==
    /\ stream
    /\ callback_pc = "idle"
    /\ Len(frames) < MaxFrames
    /\ frames' = IF recording THEN Append(frames, Len(frames) + 1) ELSE frames
    /\ emitted' = <<>>
    /\ ClearStep
    /\ UNCHANGED <<backend, config, hotkeys, pressed_keys, active_hotkey>>
    /\ UNCHANGED histVars
    /\ UNCHANGED <<current_action, is_active, recording, stream, workers,
                   on_complete, open_streams, callback_pc, stop_waits, last_call>>
    /\ UNCHANGED pipe
    /\ NoPublish
    /\ UNCHANGED publishVars
    /\ UNCHANGED threadVars

\* the sequence s without its i-th element
RemoveAt(s, i) == SubSeq(s, 1, i - 1) \o SubSeq(s, i + 1, Len(s))

\* VibeLocal._process_audio: a worker thread runs its pipeline and ends
ProcessAudio ==
    \E i \in 1..Len(workers) :
        /\ workers' = RemoveAt(workers, i)
        /\ emitted' = <<>>
        /\ ClearStep
        /\ UNCHANGED <<backend, config, hotkeys, pressed_keys, active_hotkey>>
        /\ UNCHANGED histVars
        /\ UNCHANGED <<current_action, is_active, recording, frames, stream,
                       on_complete, open_streams, callback_pc, stop_waits, last_call>>
        /\ UNCHANGED pipe
        /\ NoPublish
        /\ UNCHANGED publishVars
        /\ UNCHANGED threadVars

\* a step of the recorder classes alone
AudioStep(c) ==
    /\ SetCoord(c)
    /\ emitted' = <<>>
    /\ UNCHANGED <<backend, config, hotkeys>>
    /\ UNCHANGED listenerVars
    /\ UNCHANGED histVars
    /\ UNCHANGED pipe
    /\ NoPublish
    /\ UNCHANGED publishVars
    /\ UNCHANGED threadVars

\* PushToTalkRecorder.press() is called
SessionPress == AudioStep(PushToTalkPress(Coord))

\* PushToTalkRecorder.release() is called
SessionRelease ==
    LET r == PushToTalkRelease(Coord)
    IN  AudioStep([r.state EXCEPT !.returned = Returned(r)])

\* AudioRecorder.start() is called
StartCall ==
    /\ open_streams < MaxStreams
    /\ AudioStep(RecorderStart(Coord))

\* AudioRecorder.stop() is called
StopCall ==
    LET r == RecorderStop(Coord)
    IN  AudioStep([r.state EXCEPT !.returned = Returned(r)])

\* _audio_callback, line 28: an open stream calls back on the device's thread,
\* which tests _recording without holding the lock
CallbackEnter ==
    /\ open_streams > 0
    /\ callback_pc = "idle"
    /\ Len(frames) < MaxBlocks
    /\ AudioStep([Coord EXCEPT !.callback_pc =
                      IF recording THEN "checked" ELSE "idle"])

\* _audio_callback, lines 29-30: the append, under the lock
CallbackAppend ==
    /\ callback_pc \in {"checked", "stale"}
    /\ lock = "free"
    /\ AudioStep([Coord EXCEPT !.frames = Append(@, IF callback_pc = "stale"
                                                    THEN StaleBlock
                                                    ELSE Len(@) + 1),
                               !.callback_pc = "idle"])

\* the positions of start() / stop() inside "with self._lock"
\* mutant: stop() takes the lock before it halts the stream
LockedStepsWide == {"start.locked", "stop.halt", "stop.locked"}

\* start(), lines 34-36, and stop(), lines 55-59
LockedSteps == {"start.locked", "stop.locked"}

\* the thread in start() / stop() moves on to position pc: it enters a
\* "with self._lock" block when the lock is free, and leaves it
MainGoes(pc) ==
    /\ (pc \in LockedSteps /\ lock # "main") => lock = "free"
    /\ main_pc' = pc
    /\ adders' = adders
    /\ lock' = IF pc \in LockedSteps THEN "main" ELSE "free"

\* one statement of start() / stop()
LockStep(c, pc) ==
    /\ MainGoes(pc)
    /\ SetCoord(c)
    /\ emitted' = <<>>
    /\ UNCHANGED <<backend, config, hotkeys>>
    /\ UNCHANGED listenerVars
    /\ UNCHANGED histVars
    /\ UNCHANGED pipe
    /\ NoPublish
    /\ UNCHANGED publishVars

\* start(), line 34: start() is called and takes the lock
LockStartEnter ==
    /\ main_pc = "idle"
    /\ open_streams < MaxStreams
    /\ LockStep(Coord, "start.locked")

\* start(), lines 35-36: the reset, then the lock is returned
LockStartReset ==
    /\ main_pc = "start.locked"
    /\ LockStep([Coord EXCEPT !.frames = <<>>, !.recording = TRUE], "start.open")

\* start(), lines 38-44: the stream is created and started
LockStartOpen ==
    /\ main_pc = "start.open"
    /\ LockStep([Coord EXCEPT !.stream = TRUE, !.open_streams = @ + 1,
                              !.calls = <<"start", "stream.start">>,
                              !.last_call = "start"], "idle")

\* stop(), line 48: stop() is called and clears _recording
LockStopFlag ==
    /\ main_pc = "idle"
    /\ LockStep([Coord EXCEPT !.recording = FALSE],
                IF stream THEN "stop.halt" ELSE "stop.locked")

\* stop(), lines 50-53: the stream is stopped and closed; a device whose
\* stop() waits returns once the running callback has ended
LockStopHalt ==
    /\ main_pc = "stop.halt"
    /\ stop_waits => callback_pc # "checked"
    /\ LockStep([Coord EXCEPT !.stream = FALSE, !.open_streams = @ - 1,
                              !.callback_pc = IF @ = "checked" /\ open_streams = 1
                                              THEN "stale" ELSE @,
                              !.calls = <<"stop", "stream.close">>],
                "stop.locked")

\* stop(), lines 55-65: the frames are taken under the lock and returned
LockStopTake ==
    /\ main_pc = "stop.locked"
    /\ LET res == StopResult(frames)
       IN  LockStep([Coord EXCEPT !.frames = IF res.raised THEN @ ELSE <<>>,
                                  !.last_call = "stop",
                                  !.returned = Returned([is_none |-> FALSE,
                                                         raised |-> res.raised,
                                                         audio |-> res.audio])],
                    "idle")

\* the statements of start() and stop()
LockMain ==
    \/ LockStartEnter \/ LockStartReset \/ LockStartOpen
    \/ LockStopFlag \/ LockStopHalt \/ LockStopTake

\* a step of the _process_audio call under way
PipeStep(p) ==
    /\ pipe' = p
    /\ UNCHANGED programVars

\* a worker thread starts _process_audio on a non-empty recording
PipeStart ==
    /\ pipe.pc \in {"none", "done"}
    /\ \E action \in HotkeyAction : PipeStep(Begin(action))

PipeTranscribe ==
    /\ pipe.pc = "transcribe"
    /\ \/ \E text \in RawTexts : PipeStep(AfterTranscribe(pipe, text))
       \/ \E msg \in ErrorMessages : PipeStep(Raise(pipe, "transcribe", msg))

PipeImprove ==
    /\ pipe.pc = "improve_transcription"
    /\ \/ \E clean \in ImprovedTexts : PipeStep(AfterImprove(pipe, clean))
       \/ \E msg \in ErrorMessages : PipeStep(Raise(pipe, "improve_transcription", msg))

PipeGetSelection ==
    /\ pipe.pc = "get_selection"
    /\ \/ \E selection \in Selections : PipeStep(AfterSelection(pipe, selection))
       \/ \E msg \in ErrorMessages : PipeStep(Raise(pipe, "get_selection", msg))

\* get_clipboard catches every exception itself and returns ""
PipeGetClipboard ==
    /\ pipe.pc = "get_clipboard"
    /\ \E clip \in Clipboards : PipeStep(AfterClipboard(pipe, clip))

PipeRewrite ==
    /\ pipe.pc = "rewrite"
    /\ \/ \E result \in RewrittenTexts : PipeStep(AfterEngine(pipe, "rewrite", result))
       \/ \E msg \in ErrorMessages : PipeStep(Raise(pipe, "rewrite", msg))

PipeContextReply ==
    /\ pipe.pc = "context_reply"
    /\ \/ \E result \in ReplyTexts :
             PipeStep(AfterEngine(pipe, "context_reply", result))
       \/ \E msg \in ErrorMessages : PipeStep(Raise(pipe, "context_reply", msg))

\* type_text catches its own exceptions and returns False
PipeTypeText ==
    /\ pipe.pc = "type_text"
    /\ \E ok \in BOOLEAN : PipeStep(AfterTypeText(pipe, ok))

PipeHistoryAdd ==
    /\ pipe.pc = "history.add"
    /\ PipeStep(AfterHistoryAdd(pipe))

\* a step of the transcription history alone
HistoryStep(es, op) ==
    /\ entries' = es
    /\ calls' = <<op>>
    /\ invoked' = <<Publication("history", change_callbacks)>>
    /\ escaped' = Publication("history", change_callbacks).escaped
    /\ notified' = <<>>
    /\ returned' = NoReturn
    /\ emitted' = <<>>
    /\ UNCHANGED <<backend, config, hotkeys, callbacks, change_callbacks, pipe>>
    /\ UNCHANGED threadVars
    /\ UNCHANGED listenerVars
    /\ UNCHANGED histVars
    /\ UNCHANGED coordVars

\* TranscriptionHistory.add is called
HistoryAddCall ==
    /\ clock < MaxAdds
    /\ clock' = clock + 1
    /\ HistoryStep(HistoryAdd(entries, HistoryEntry(clock + 1, "hello world",
                                                    "Hello world.", "transcribe")),
                   "history.add")

\* TranscriptionHistory.clear is called
HistoryClearCall ==
    /\ clock' = clock
    /\ HistoryStep(<<>>, "history.clear")

\* one statement of add() on thread t
AdderStep(t, a, es) ==
    /\ adders' = [adders EXCEPT ![t] = a]
    /\ entries' = es
    /\ calls' = IF a.pc = "idle" THEN <<"history.add">> ELSE <<>>
    /\ invoked' = IF a.pc = "idle"
                  THEN <<Publication("history", change_callbacks)>> ELSE <<>>
    /\ escaped' = (a.pc = "idle" /\ Publication("history", change_callbacks).escaped)
    /\ notified' = <<>>
    /\ returned' = NoReturn
    /\ emitted' = <<>>
    /\ UNCHANGED <<backend, config, hotkeys, callbacks, change_callbacks, pipe,
                   lock, main_pc>>
    /\ UNCHANGED listenerVars
    /\ UNCHANGED histVars
    /\ UNCHANGED coordVars

\* add, lines 35-40: a worker thread calls add() and builds the entry
AddEnter(t) ==
    /\ adders[t].pc = "idle"
    /\ clock < MaxAdds
    /\ clock' = clock + 1
    /\ AdderStep(t, [adders[t] EXCEPT
                        !.pc = "created",
                        !.entry = HistoryEntry(clock + 1, "hello world",
                                               "Hello world.", "transcribe")],
                 entries)

\* add, line 41: self._entries.insert(0, entry)
AddInsert(t) ==
    /\ adders[t].pc = "created"
    /\ clock' = clock
    /\ AdderStep(t, [adders[t] EXCEPT !.pc = "inserted"],
                 <<adders[t].entry>> \o entries)

\* add, lines 44-45: the test of the length and the slice
\* self._entries[:self._max_entries], a new list; with nothing to trim the
\* callbacks are notified and add() returns
AddSlice(t) ==
    /\ adders[t].pc = "inserted"
    /\ clock' = clock
    /\ IF Len(entries) > max_entries
       THEN AdderStep(t, [adders[t] EXCEPT !.pc = "sliced",
                                           !.slice = SubSeq(entries, 1, max_entries)],
                      entries)
       ELSE AdderStep(t, NoAdder, entries)

\* add, line 45: the slice is assigned to self._entries; lines 48-52
AddAssign(t) ==
    /\ adders[t].pc = "sliced"
    /\ clock' = clock
    /\ AdderStep(t, NoAdder, adders[t].slice)

AddEnters == \E t \in 1..MaxAdders : AddEnter(t)
AddInserts == \E t \in 1..MaxAdders : AddInsert(t)
AddSlices == \E t \in 1..MaxAdders : AddSlice(t)
AddAssigns == \E t \in 1..MaxAdders : AddAssign(t)

Next == OnPress \/ OnRelease \/ AudioCallback \/ ProcessAudio
Spec == Init /\ [][Next]_vars

NextKeys == KeyPressed \/ KeyReleased
SpecKeys == InitKeys /\ [][NextKeys]_vars

\* the whole program on a capture device that may fail
NextFaulty == FaultyPress \/ FaultyRelease \/ AudioCallback \/ ProcessAudio
SpecFaulty == Init /\ [][NextFaulty]_vars

NextCoord == HandleHotkeyEvent \/ AudioCallback \/ ProcessAudio
SpecCoord == Init /\ [][NextCoord]_vars

NextSession == SessionPress \/ SessionRelease \/ CallbackEnter \/ CallbackAppend
SpecSession == InitAudio /\ [][NextSession]_vars

NextPipeline ==
    \/ PipeStart \/ PipeTranscribe \/ PipeImprove \/ PipeGetSelection
    \/ PipeGetClipboard \/ PipeRewrite \/ PipeContextReply \/ PipeTypeText
    \/ PipeHistoryAdd
SpecPipeline == Init /\ [][NextPipeline]_vars

\* a started worker thread keeps being scheduled, and every collaborator
\* call returns or raises; a new recording need not come
PipelineRuns ==
    \/ PipeTranscribe \/ PipeImprove \/ PipeGetSelection \/ PipeGetClipboard
    \/ PipeRewrite \/ PipeContextReply \/ PipeTypeText \/ PipeHistoryAdd
SpecPipelineFair == SpecPipeline /\ WF_vars(PipelineRuns)

\* the listener alone, publishing to its callbacks
NextEmit == EmitPressed \/ EmitReleased
SpecEmit == InitEmit /\ [][NextEmit]_vars

NextHistory == HistoryAddCall \/ HistoryClearCall

\* add() called by several worker threads, a statement at a time
NextAdders == AddEnters \/ AddInserts \/ AddSlices \/ AddAssigns
SpecAdders == InitHistoryFull /\ [][NextAdders]_vars
SpecHistory == InitHistory /\ [][NextHistory]_vars

\* AudioRecorder alone, start() and stop() a statement at a time
NextLock == LockMain \/ CallbackEnter \/ CallbackAppend
SpecLock == InitAudio /\ [][NextLock]_vars

NextRecorder == StartCall \/ StopCall \/ CallbackEnter \/ CallbackAppend
SpecRecorder == InitAudio /\ [][NextRecorder]_vars

(***************************************************************************)
(* Helpers of the properties.                                              *)
(***************************************************************************)
\* self._hotkeys[a], for an action of the table
KeysOf(a) ==
    LET i == CHOOSE j \in 1..Len(hotkeys) : hotkeys[j].action = a
    IN  hotkeys[i].keys

\* the chords of the table whose key set is held, in table order
Satisfied(pressed) == {i \in 1..Len(hotkeys) : hotkeys[i].keys \subseteq pressed}

\* the first satisfied chord's action
FirstSatisfied(pressed) ==
    hotkeys[CHOOSE i \in Satisfied(pressed) : \A j \in Satisfied(pressed) : i <= j].action

PressedEvents(events) == {i \in 1..Len(events) : events[i].pressed}
ReleasedEvents(events) == {i \in 1..Len(events) : ~events[i].pressed}

\* the position of an action in _parse_hotkeys' action_map (a dict literal:
\* iteration follows the order it is written in)
Rank(a) == CHOOSE i \in 1..Len(ActionNames) : ActionOf(ActionNames[i]) = a

\* the config name of an action
ConfigName(a) == ActionNames[Rank(a)]

\* the actions whose chord is fully held
HeldActions(pressed) == {hotkeys[i].action : i \in Satisfied(pressed)}

\* every configured key name has a physical key of its modifier class held
ClassHeld(names, held) ==
    \A i \in 1..Len(names) : \E k \in held : ModClass(k) = ModClass(names[i])

(***************************************************************************)
(* C1 - C3: the coordinator.                                               *)
(***************************************************************************)
\* C1: at most one pipeline execution (_process_audio) is in progress at any
\* time, whatever key events arrive.  (Spec)
C1_AtMostOnePipeline == Len(workers) <= 1

\* C2: a pressed event that reaches the coordinator while a pipeline is still
\* running is ignored: current_action is not set, CaptureSession.press() is
\* not called and no capture starts.  (Spec)
C2_PressIgnoredWhileProcessing ==
    [][(workers # <<>> /\ PressedEvents(emitted') # {})
          => /\ current_action' = current_action
             /\ is_active' = is_active
             /\ recording' = recording
             /\ stream' = stream
             /\ frames' = frames]_vars

\* C3: pressed(B) delivered after pressed(A) with no released event in between
\* is ignored: current_action stays A and no capture is started for B, so the
\* recording is processed as A.  (SpecCoord)
C3_SecondPressIgnored ==
    [][(current_action # None /\ PressedEvents(emitted') # {})
          => /\ current_action' = current_action
             /\ stream' = stream
             /\ frames' = frames]_vars

(***************************************************************************)
(* C4 - C10: the listener.  (SpecKeys)                                     *)
(***************************************************************************)
\* C4: sticky, single-active: while an action A is active no pressed event is
\* emitted, and A stays active for as long as its whole key set is held,
\* whatever other keys are pressed or released and whatever other chords are
\* satisfied.
C4_StickySingleActive ==
    [][active_hotkey # None
          => /\ PressedEvents(emitted') = {}
             /\ (KeysOf(active_hotkey) \subseteq pressed_keys'
                    => active_hotkey' = active_hotkey /\ emitted' = <<>>)]_vars

\* A is active while another chord with a different key set is satisfied too,
\* right after a key press
C4_Witness ==
    /\ active_hotkey # None
    /\ last_key.is_press
    /\ emitted = <<>>
    /\ \E i \in Satisfied(pressed_keys) :
          /\ hotkeys[i].action # active_hotkey
          /\ hotkeys[i].keys # KeysOf(active_hotkey)

\* C5: one key event emits at most one pressed event, also when several
\* chords are satisfied by the held-key set.
C5_AtMostOnePressed == Cardinality(PressedEvents(emitted)) <= 1

\* a key press that satisfied two chords at once emitted one pressed event
C5_Witness ==
    /\ last_key.is_press
    /\ Cardinality(PressedEvents(emitted)) = 1
    /\ Cardinality(Satisfied(pressed_keys)) >= 2
    /\ \A i \in Satisfied(pressed_keys) :
          ~(hotkeys[i].keys \subseteq round_trip.before)

\* C6: when A is active and a key release leaves A's key set not fully held,
\* the matcher goes Idle and emits exactly one released event, for A, at that
\* event; a released event is only ever emitted for the active action; a
\* release of a key outside A's key set emits nothing.
C6_ReleaseOnExit ==
    [][/\ (active_hotkey # None /\ ~last_key'.is_press
             /\ ~(KeysOf(active_hotkey) \subseteq pressed_keys'))
          => (active_hotkey' = None
              /\ emitted' = <<HotkeyEvent(active_hotkey, FALSE)>>)
       /\ \A i \in ReleasedEvents(emitted') :
              emitted'[i].action = active_hotkey
       /\ (active_hotkey # None /\ ~last_key'.is_press
             /\ KeyIdentity(backend, last_key'.key) \notin KeysOf(active_hotkey))
          => (emitted' = <<>> /\ active_hotkey' = active_hotkey)]_vars

\* a release of one of its keys has just ended the active chord, while
\* another configured chord is still not fully held
C6_Witness ==
    /\ ~last_key.is_press
    /\ active_hotkey = None
    /\ Len(emitted) = 1
    /\ ~emitted[1].pressed
    /\ KeyIdentity(backend, last_key.key) \in KeysOf(emitted[1].action)
    /\ Len(hotkeys) > 1

\* C7: left and right variants of a modifier are interchangeable: when a key
\* press completes a chord up to the side of its modifiers (every configured
\* key has a physical key of its class held) while the matcher is Idle, a
\* chord becomes active, on both listeners.
C7_ModifierSidesInterchangeable ==
    [][(last_key'.is_press /\ active_hotkey = None
          /\ \E n \in 1..Len(ActionNames) :
                /\ ClassHeld(config[ActionNames[n]], held_raw')
                /\ ~ClassHeld(config[ActionNames[n]], held_raw))
          => active_hotkey' # None]_vars

\* C8: round trip: a press of K followed at once by a release of K leaves the
\* held-key set as it was before the press.
C8_HeldSetRoundTrip ==
    round_trip.phase = "released" => round_trip.after = round_trip.before

\* C9: edge-triggered entry: a pressed event is emitted only at a key event
\* at which the action's key set becomes fully held (it was not a subset of
\* the held-key set just before the event).
C9_EdgeTriggeredEntry ==
    [][\A i \in PressedEvents(emitted') :
          ~(KeysOf(emitted'[i].action) \subseteq pressed_keys)]_vars

\* C10: the Idle rule is evaluated after every key event, press or release:
\* once a key event has been handled, the matcher is not Idle while some
\* configured chord's key set is a subset of the held-key set (a chord that
\* became satisfied while another was active is taken up at the event that
\* releases the active chord).
C10_IdleRuleAfterEveryEvent ==
    active_hotkey = None => Satisfied(pressed_keys) = {}

(***************************************************************************)
(* C11 - C12: the chord table.  (SpecKeys)                                 *)
(***************************************************************************)
\* C11: when a key press finds the matcher Idle and one or more chords
\* satisfied, exactly one pressed event is emitted and its action is fixed by
\* the held-key set and the chord table alone: the satisfied action that
\* comes first in the order transcribe, rewrite, context_reply.
C11_DeterministicWinner ==
    [][(last_key'.is_press /\ KeyIdentity(backend, last_key'.key) # None
          /\ active_hotkey = None /\ Satisfied(pressed_keys') # {})
          => \E a \in HeldActions(pressed_keys') :
                /\ \A b \in HeldActions(pressed_keys') : Rank(a) <= Rank(b)
                /\ active_hotkey' = a
                /\ emitted' = <<HotkeyEvent(a, TRUE)>>]_vars

\* rewrite has just won over context_reply, both chords being held
C11_Witness ==
    /\ last_key.is_press
    /\ emitted = <<HotkeyEvent(REWRITE, TRUE)>>
    /\ active_hotkey = REWRITE
    /\ CONTEXT_REPLY \in HeldActions(pressed_keys)

\* C12: a pressed event is emitted only while every key named in the
\* action's configuration is held (up to the side of a modifier), also when
\* the configuration names a key the listener cannot resolve.
C12_AllConfiguredKeysHeld ==
    \A i \in PressedEvents(emitted) :
        ClassHeld(config[ConfigName(emitted[i].action)], held_raw)

(***************************************************************************)
(* C13 - C16: the recorder.                                                *)
(***************************************************************************)
\* the AudioRecorder calls among the calls of a step
RecorderCalls(cs) == SelectSeq(cs, LAMBDA x : x \in {"start", "stop"})

\* cs continues the alternation start, stop, start, ... after the call prev
RECURSIVE Alternates(_, _)
Alternates(prev, cs) ==
    \/ cs = <<>>
    \/ /\ Head(cs) = (IF prev = "start" THEN "stop" ELSE "start")
       /\ Alternates(Head(cs), Tail(cs))

\* C13: the start() and stop() calls PushToTalkRecorder makes alternate,
\* beginning with start(): press() while active calls start() not again and
\* keeps the frames, release() while inactive calls no stop(), and at most
\* one capture stream is open.  (SpecSession)
C13_StartStopAlternate ==
    [][/\ Alternates(last_call, RecorderCalls(calls'))
       /\ ("press" \in Range(calls') /\ is_active)
             => (RecorderCalls(calls') = <<>> /\ frames' = frames)
       /\ ("release" \in Range(calls') /\ ~is_active)
             => RecorderCalls(calls') = <<>>
       /\ open_streams' <= 1]_vars

\* press() was called while active, with a frame already accumulated
C13_Witness ==
    /\ calls = <<"press">>
    /\ is_active
    /\ frames # <<>>
    /\ open_streams = 1

\* C14: release() while the session is not active returns None, raises
\* nothing, calls neither stop() nor the completion callback and leaves the
\* session and the recorder as they were.  (SpecSession)
C14_ReleaseWhileInactive ==
    [][("release" \in Range(calls') /\ ~is_active)
          => /\ returned' = [called |-> TRUE, is_none |-> TRUE,
                             raised |-> FALSE, audio |-> <<>>]
             /\ calls' = <<"release">>
             /\ UNCHANGED <<is_active, recording, frames, stream, open_streams,
                            callback_pc, last_call>>]_vars

\* a second release() after a finished recording returned None, with a
\* completion callback registered
C14_Witness ==
    /\ calls = <<"release">>
    /\ returned.called /\ returned.is_none
    /\ last_call = "stop"
    /\ on_complete

\* C15: stop() with no frame appended returns a zero-length buffer and
\* raises nothing, with a capture stream open or without.  (SpecRecorder)
C15_StopOnEmptyBuffer ==
    [][("stop" \in Range(calls') /\ frames = <<>>
          /\ ~(stop_waits /\ stream /\ callback_pc = "checked"))
          => returned' = [called |-> TRUE, is_none |-> FALSE,
                          raised |-> FALSE, audio |-> <<>>]]_vars

\* stop() was called with no capture stream open, before any start()
C15_Witness ==
    /\ calls = <<"stop">>
    /\ returned.called /\ returned.audio = <<>> /\ ~returned.raised
    /\ open_streams = 0
    /\ ~recording /\ frames = <<>>

\* C16: no frame is appended after stop() has taken the frames: the buffer
\* is empty from the end of stop() until the next start().  (SpecSession)
C16_NoAppendAfterStop == ~recording => frames = <<>>

(***************************************************************************)
(* C17 - C20: the pipeline.                                                *)
(***************************************************************************)
\* C17: a released event that ends a recording with an empty buffer makes the
\* coordinator notify "No speech detected", start no pipeline (so nothing is
\* injected or written to the history) and return to Idle.  (SpecCoord)
C17_EmptyRecordingNotified ==
    [][(ReleasedEvents(emitted') # {} /\ is_active /\ frames = <<>>)
          => /\ "No speech detected" \in Range(notified')
             /\ workers' = workers
             /\ current_action' = None]_vars

\* the collaborator calls of a log, the notifications left out
EngineCalls(log) == SelectSeq(log, LAMBDA e : e.op # "notify")

\* the texts that are empty or only whitespace
Blank == {"", " "}

\* the _process_audio call has returned without an exception, having
\* transcribed some words
Finished(action) ==
    /\ pipe.pc = "done"
    /\ pipe.action = action
    /\ ~pipe.raised
    /\ pipe.log[2].ret \notin Blank

\* C18: for every action, once transcription has returned an empty or blank
\* text the pipeline has notified "No speech detected" and stopped: its calls
\* are the transcription and the two notifications, nothing else.
\* (SpecPipeline)
C18_BlankTextStops ==
    \A i \in 1..Len(pipe.log) :
        (pipe.log[i].op = "transcribe" /\ pipe.log[i].ret \in Blank)
           => /\ pipe.pc = "done"
              /\ pipe.log = <<Notify("Transcribing...", ""), pipe.log[i],
                              Notify("No speech detected", "")>>

\* a rewrite recording was transcribed to whitespace
C18_Witness ==
    /\ pipe.pc = "done"
    /\ pipe.action = REWRITE
    /\ Len(pipe.log) = 3
    /\ pipe.log[2].op = "transcribe" /\ pipe.log[2].ret = " "

\* C19: a Transcribe pipeline that ran through made exactly these calls, in
\* this order: transcribe -> raw, improve_transcription(raw) -> final,
\* type_text(final), history.add(raw, final, "transcribe").  (SpecPipeline)
C19_TranscribeOrder ==
    Finished(TRANSCRIBE)
       => LET cs == EngineCalls(pipe.log)
          IN  /\ Len(cs) = 4
              /\ cs[1].op = "transcribe"
              /\ cs[2].op = "improve_transcription" /\ cs[2].a1 = cs[1].ret
              /\ cs[3].op = "type_text" /\ cs[3].a1 = cs[2].ret
              /\ cs[4] = Call("history.add", cs[1].ret, cs[2].ret, "transcribe", "")

\* a Transcribe pipeline ended with its history entry, the cleaned text
\* differing from the raw text
C19_Witness ==
    /\ Finished(TRANSCRIBE)
    /\ pipe.log[Len(pipe.log)].op = "history.add"
    /\ pipe.log[Len(pipe.log)].a1 # pipe.log[Len(pipe.log)].a2

\* C20: a Rewrite pipeline that ran through read the selection, and the
\* clipboard only when the selection was empty; with both empty it notified
\* the failure and called nothing more; otherwise it called
\* rewrite(source, instruction), typed the result and added the history
\* entry (instruction, result, "rewrite").  (SpecPipeline)
C20_RewriteSource ==
    Finished(REWRITE)
       => LET cs == EngineCalls(pipe.log)
              fallback == cs[2].ret = ""
              n == IF fallback THEN 3 ELSE 2
              source == cs[n].ret
          IN  /\ cs[1].op = "transcribe"
              /\ cs[2].op = "get_selection"
              /\ fallback => cs[3].op = "get_clipboard"
              /\ \A i \in 1..Len(cs) : cs[i].op = "get_clipboard" => (fallback /\ i = 3)
              /\ IF source = ""
                 THEN /\ Len(cs) = n
                      /\ pipe.log[Len(pipe.log)] =
                            Notify("No text selected to rewrite", "")
                 ELSE /\ Len(cs) = n + 3
                      /\ cs[n + 1].op = "rewrite"
                      /\ cs[n + 1].a1 = source /\ cs[n + 1].a2 = cs[1].ret
                      /\ cs[n + 2].op = "type_text" /\ cs[n + 2].a1 = cs[n + 1].ret
                      /\ cs[n + 3] = Call("history.add", cs[1].ret, cs[n + 1].ret,
                                          "rewrite", "")

\* a Rewrite pipeline ran through on the clipboard's text, the selection
\* being empty
C20_Witness ==
    /\ Finished(REWRITE)
    /\ \E i \in 1..Len(pipe.log) :
          /\ pipe.log[i].op = "rewrite"
          /\ pipe.log[i].a1 = "clipboard text"
    /\ pipe.log[Len(pipe.log)].op = "history.add"

(***************************************************************************)
(* C21 - C25: the pipeline, continued.                                     *)
(***************************************************************************)
\* C21: a ContextReply pipeline that ran through read the clipboard; when it
\* was empty it notified the failure and called nothing more; otherwise it
\* called context_reply(clipboard, intent), typed the result and added the
\* history entry (intent, result, "context_reply").  (SpecPipeline)
C21_ContextReply ==
    Finished(CONTEXT_REPLY)
       => LET cs == EngineCalls(pipe.log)
          IN  /\ cs[1].op = "transcribe"
              /\ cs[2].op = "get_clipboard"
              /\ IF cs[2].ret = ""
                 THEN /\ Len(cs) = 2
                      /\ pipe.log[Len(pipe.log)] = Notify("No context in clipboard", "")
                 ELSE /\ Len(cs) = 5
                      /\ cs[3].op = "context_reply"
                      /\ cs[3].a1 = cs[2].ret /\ cs[3].a2 = cs[1].ret
                      /\ cs[4].op = "type_text" /\ cs[4].a1 = cs[3].ret
                      /\ cs[5] = Call("history.add", cs[1].ret, cs[3].ret,
                                      "context_reply", "")

\* a ContextReply pipeline ran through on a non-empty clipboard and a
\* non-empty reply
C21_Witness ==
    /\ Finished(CONTEXT_REPLY)
    /\ pipe.log[Len(pipe.log)] =
          Call("history.add", "hello world", "reply text", "context_reply", "")

\* C22: when a collaborator raises, the pipeline catches it: it notifies an
\* error that shows the first 50 characters of the message at most, makes no
\* further call (no injection, no history write) and returns; nothing of the
\* program outside the worker changes.  (SpecPipeline)
C22_ExceptionCaught ==
    [][pipe'.raised /\ ~pipe.raised
          => /\ pipe'.pc = "done"
             /\ pipe'.log = pipe.log \o <<pipe'.log[Len(pipe.log) + 1],
                                           Notify("Error: ", pipe'.log[Len(pipe.log) + 1].op)>>
             /\ pipe'.log[Len(pipe.log) + 1].ret = "raise"
             /\ Len(pipe'.error_shown) <= ErrorLimit
             /\ pipe'.error_shown = SubSeq(pipe'.error, 1, Len(pipe'.error_shown))
             /\ Len(pipe'.error) <= ErrorLimit => pipe'.error_shown = pipe'.error
             /\ \A i \in 1..Len(pipe'.log) :
                    pipe'.log[i].op \notin {"type_text", "history.add"}
             /\ UNCHANGED programVars]_vars

\* the rewrite engine raised with a message of 51 characters, of which 50
\* were shown
C22_Witness ==
    /\ pipe.pc = "done" /\ pipe.raised
    /\ pipe.action = REWRITE
    /\ Len(pipe.error) = ErrorLimit + 1
    /\ Len(pipe.error_shown) = ErrorLimit
    /\ pipe.log[Len(pipe.log) - 1].op = "rewrite"

\* C23: when type_text returns False the pipeline adds no history entry.
\* (SpecPipeline)
C23_HistoryOnlyOnSuccess ==
    \A i \in 1..Len(pipe.log) :
        (pipe.log[i].op = "type_text" /\ pipe.log[i].ret = "False")
           => \A j \in 1..Len(pipe.log) : pipe.log[j].op # "history.add"

\* C25: a started _process_audio call returns on every branch, given that
\* its thread keeps being scheduled and every collaborator call returns or
\* raises.  (SpecPipelineFair)
C25_PipelineTerminates ==
    (pipe.pc \notin {"none", "done"}) ~> (pipe.pc = "done")

\* a pipeline returned after its selection read raised
C25_Witness ==
    /\ pipe.pc = "done" /\ pipe.raised
    /\ pipe.log[Len(pipe.log) - 1].op = "get_selection"

\* C24: detection is not blocked by processing: while pipelines are running,
\* whether or not they ever return, every key press and release is still
\* taken by the listener and its events handled by the coordinator.  (Spec)
C24_DetectionNotBlocked ==
    (workers # <<>> /\ Len(workers) < MaxPipelines)
       => \A k \in PhysKeys :
             ENABLED ProgramKey(k, TRUE) /\ ENABLED ProgramKey(k, FALSE)

\* a pressed event was emitted and handled while a pipeline was running
C24_Witness ==
    /\ workers # <<>>
    /\ PressedEvents(emitted) # {}
    /\ is_active
    /\ current_action = emitted[1].action

(***************************************************************************)
(* C26: the coordinator, continued.  (SpecCoord)                           *)
(***************************************************************************)
\* C26: a released(X) event delivered while current_action is not X (another
\* action, or unset) stops no capture, starts no pipeline and leaves
\* current_action as it was.
C26_ReleaseOnlyForCurrentAction ==
    [][\A i \in ReleasedEvents(emitted') :
          emitted'[i].action # current_action
             => UNCHANGED <<current_action, is_active, recording, stream,
                            frames, workers>>]_vars

(***************************************************************************)
(* C27 - C28: the history and the callbacks.                               *)
(***************************************************************************)
\* C27: the history holds at most max_entries entries, newest first; an
\* add() puts the new entry first and keeps the others in order, evicting
\* the single oldest one when the history was full; nothing but add() and
\* clear() changes the entries.  (SpecHistory)
C27_HistoryCapped ==
    [][/\ calls' = <<"history.add">>
          => /\ Len(entries') <= max_entries
             /\ entries'[1].timestamp = clock'
             /\ \A i \in 1..(Len(entries') - 1) :
                    entries'[i].timestamp > entries'[i + 1].timestamp
             /\ Tail(entries') = IF Len(entries) = max_entries
                                 THEN SubSeq(entries, 1, max_entries - 1)
                                 ELSE entries
       /\ calls' \notin {<<"history.add">>, <<"history.clear">>}
          => entries' = entries]_vars

\* an add() on a full history has evicted the oldest entry
C27_Witness ==
    /\ calls = <<"history.add">>
    /\ Len(entries) = max_entries
    /\ entries[max_entries].timestamp > 1
    /\ entries[1].timestamp = clock

\* C28: a publication reaches every registered callback, in order, whether
\* or not one of them raises, and no exception leaves the publisher; the
\* matcher's active chord is what _check_hotkeys computes from the held keys
\* alone.  (SpecEmit)
C28_ListenersIndependent ==
    /\ ~escaped
    /\ \A j \in 1..Len(invoked) :
          LET cbs == IF invoked[j].of = "hotkey" THEN callbacks ELSE change_callbacks
          IN  invoked[j].invoked = [i \in 1..Len(cbs) |-> i]
    /\ Len(invoked) = IF calls \in {<<"history.add">>, <<"history.clear">>}
                      THEN 1 ELSE Len(emitted)
    /\ active_hotkey # None => KeysOf(active_hotkey) \subseteq pressed_keys

\* a hotkey event was published to two callbacks of which the first raises
C28_Witness ==
    /\ Len(emitted) = 1
    /\ Len(callbacks) = 2
    /\ callbacks[1] = "raises"
    /\ invoked = <<[of |-> "hotkey", invoked |-> <<1, 2>>, escaped |-> FALSE]>>

(***************************************************************************)
(* C29 - C30: the frames of one recording.                                 *)
(***************************************************************************)
\* C29: stop() returns the frames appended since the matching start(), each
\* once and in the order of their arrival (with the block of a callback it
\* waited for last), and leaves the frame list empty.  (SpecRecorder)
C29_StopReturnsFrames ==
    []["stop" \in Range(calls')
          => /\ returned'.called /\ ~returned'.is_none /\ ~returned'.raised
             /\ returned'.audio =
                    IF stop_waits /\ stream /\ callback_pc = "checked"
                    THEN Append(frames, Len(frames) + 1) ELSE frames
             /\ \A i, j \in 1..Len(returned'.audio) :
                    i < j => returned'.audio[i] < returned'.audio[j]
             /\ frames' = <<>>]_vars

\* stop() has returned two frames, in the order they arrived
C29_Witness ==
    /\ "stop" \in Range(calls)
    /\ returned.called
    /\ returned.audio = <<1, 2>>
    /\ frames = <<>>

\* C30: the buffer a stop() returns holds no block of a stream that was
\* closed before the block was appended.  (SpecSession)
C30_NoLeakBetweenRecordings ==
    returned.called => StaleBlock \notin Range(returned.audio)

(***************************************************************************)
(* C31: the recorder's lock.  (SpecLock)                                   *)
(***************************************************************************)
\* C31: the lock is held only while the frame list is reset or taken (and
\* within the callback's append), never while the stream is created,
\* started, stopped or closed, nor while a pipeline runs; a start() or
\* stop() under way is never stuck: it, or the callback it waits for, can
\* take its next step.
C31_LockScope ==
    /\ lock = "main" => main_pc \in {"start.locked", "stop.locked"}
    /\ main_pc \in {"start.open", "stop.halt"} => lock = "free"
    /\ pipe.pc \notin {"none", "done"} => lock = "free"
    /\ main_pc # "idle" => (ENABLED LockMain \/ ENABLED CallbackAppend)

\* stop() is halting a device that waits for the callback in flight, which
\* has found _recording true and is about to take the lock
C31_Witness ==
    /\ stop_waits
    /\ main_pc = "stop.halt"
    /\ callback_pc = "checked"
    /\ lock = "free"
    /\ ENABLED CallbackAppend
    /\ ~ENABLED LockMain

(***************************************************************************)
(* C32: release() and the completion callback.  (SpecSession)              *)
(***************************************************************************)
\* the number of times op is among the calls cs
Count(cs, op) == Len(SelectSeq(cs, LAMBDA x : x = op))

\* C32: release() while active marks the session inactive, calls stop()
\* once and returns the buffer stop() produced; the completion callback is
\* called once, as the last call before release() returns, when a callback
\* is registered and the buffer is not empty, and not at all otherwise.
C32_ReleaseCompletes ==
    [][("release" \in Range(calls') /\ is_active)
          => /\ ~is_active'
             /\ Count(calls', "stop") = 1
             /\ returned'.called /\ ~returned'.is_none
             /\ returned'.audio = RecorderStop(Coord).audio
             /\ Count(calls', "on_complete") =
                    IF on_complete /\ Len(returned'.audio) > 0 THEN 1 ELSE 0
             /\ Count(calls', "on_complete") = 1
                    => calls'[Len(calls')] = "on_complete"]_vars

\* release() has called the registered callback on a buffer of one frame
C32_Witness ==
    /\ on_complete
    /\ ~is_active
    /\ returned.called /\ returned.audio = <<1>>
    /\ calls = <<"release", "stop", "stream.close", "on_complete">>

(***************************************************************************)
(* C33 - C35: the listener.  (SpecKeys)                                    *)
(***************************************************************************)
\* C33: once a key event has been handled, the key set of the active action
\* is a subset of the held-key set; every chord of the parsed table has a
\* key set that is not empty; so the matcher is Idle when no key is held.
C33_ActiveChordHeld ==
    /\ active_hotkey # None => KeysOf(active_hotkey) \subseteq pressed_keys
    /\ \A i \in 1..Len(hotkeys) : hotkeys[i].keys # {}
    /\ pressed_keys = {} => active_hotkey = None

\* the release of one of its keys has ended the active chord, under a table
\* that leaves out an action whose names resolve to no key
C33_Witness ==
    /\ Len(hotkeys) < Len(ActionNames)
    /\ ~last_key.is_press
    /\ pressed_keys # {}
    /\ active_hotkey = None
    /\ Len(emitted) = 1 /\ ~emitted[1].pressed

\* C34: the hotkey events the listener emits alternate pressed, released,
\* pressed, ..., the first one being a pressed event, and each released
\* event carries the action of the pressed event before it.
C34_EventsAlternate ==
    [][\A i \in 1..Len(emitted') :
          LET prev == IF i = 1 THEN last_emitted ELSE emitted'[i - 1]
          IN  IF emitted'[i].pressed
              THEN ~prev.pressed
              ELSE prev.pressed /\ prev.action = emitted'[i].action]_vars

\* a released event has followed the pressed event of its action while the
\* chord of another action was fully held
C34_Witness ==
    /\ Len(emitted) = 1
    /\ ~emitted[1].pressed
    /\ last_emitted = emitted[1]
    /\ \E i \in Satisfied(pressed_keys) : hotkeys[i].action # emitted[1].action

\* C35: a key event whose raw key is not recognized (_normalize_key yields
\* None) changes nothing: the held-key set and the active chord stay as
\* they are and no hotkey event is emitted.
C35_UnknownKeyIgnored ==
    [][KeyIdentity(backend, last_key'.key) = None
          => /\ pressed_keys' = pressed_keys
             /\ active_hotkey' = active_hotkey
             /\ emitted' = <<>>]_vars

\* a key pynput cannot identify was pressed while a chord was active
C35_Witness ==
    /\ backend = "pynput"
    /\ last_key.is_press
    /\ KeyIdentity(backend, last_key.key) = None
    /\ active_hotkey # None
    /\ pressed_keys # {}

(***************************************************************************)
(* C36 - C37: the composed program.  (Spec)                                *)
(***************************************************************************)
\* C36: once a key event has been handled, current_action is set exactly
\* when the capture session is active and exactly when the matcher has an
\* active chord, whose action it then equals; it is set only by a handled
\* pressed event and is unset after every handled released event, the
\* audio being empty or not.
C36_StateAgrees ==
    [][/\ (current_action' # None) <=> is_active'
       /\ current_action' = active_hotkey'
       /\ (current_action' # None /\ current_action' # current_action)
             => emitted' = <<HotkeyEvent(current_action', TRUE)>>
       /\ ReleasedEvents(emitted') # {} => current_action' = None]_vars

\* a released event was handled whose recording held no audio
C36_Witness ==
    /\ Len(emitted) = 1 /\ ~emitted[1].pressed
    /\ returned.called /\ ~returned.is_none /\ returned.audio = <<>>
    /\ current_action = None
    /\ ~is_active
    /\ active_hotkey = None

\* C37: a pipeline runs with the action current_action had when its
\* released event was handled and with the audio of that recording; the
\* key events handled while it is in flight, the clearing of
\* current_action and a later press of another chord included, change
\* neither.
C37_PipelineArgumentsFixed ==
    [][Len(workers') >= Len(workers)
          => /\ SubSeq(workers', 1, Len(workers)) = workers
             /\ Len(workers') <= Len(workers) + 1
             /\ Len(workers') = Len(workers) + 1
                   => /\ ReleasedEvents(emitted') # {}
                      /\ workers'[Len(workers')].action = current_action
                      /\ workers'[Len(workers')].audio = frames
                      /\ workers'[Len(workers')].audio = returned'.audio]_vars

\* a pipeline started for one action is in flight while the chord of
\* another action is being recorded
C37_Witness ==
    /\ workers # <<>>
    /\ current_action # None
    /\ workers[1].action # current_action
    /\ workers[1].action # None
    /\ recording

(***************************************************************************)
(* C38: the chord table against the key identities.  (SpecKeys)            *)
(***************************************************************************)
\* the identities under which the keys of the keyboard enter _pressed_keys
Identities(be) == {KeyIdentity(be, k) : k \in PhysKeys} \ {None}

\* C38: every key identity in a parsed chord's key set is one that a key
\* event can put into the held-key set, so every configured chord can be
\* activated, a chord configured with a right-hand modifier name too.
C38_ChordsSatisfiable ==
    \A i \in 1..Len(hotkeys) : hotkeys[i].keys \subseteq Identities(backend)

(***************************************************************************)
(* C39: add() from several threads.  (SpecAdders)                          *)
(***************************************************************************)
\* the timestamps of the entries held
Held == {entries[i].timestamp : i \in 1..Len(entries)}

\* C39: once the add() calls under way have returned, every entry added is
\* in the history or is older than every entry held (it was evicted as one
\* of the oldest).
C39_ConcurrentAddKeepsEntries ==
    (\A t \in 1..MaxAdders : adders[t].pc = "idle")
       => \A ts \in 1..clock : ts \notin Held => \A h \in Held : ts < h

(***************************************************************************)
(* C40: a capture device that fails.  (SpecFaulty)                         *)
(***************************************************************************)
\* C40: when start() raises during a press or stop() raises during a
\* release, the exception does not leave the listener's dispatch, and once
\* the released event has been handled current_action is unset and the
\* capture session is inactive; a pressed event handled on a working device
\* then starts a new capture.
C40_DeviceFailureRecovers ==
    [][/\ ~escaped'
       /\ ReleasedEvents(emitted') # {}
             => (current_action' = None /\ ~is_active')
       /\ (PressedEvents(emitted') # {} /\ "stream.start" \in Range(calls'))
             => (recording' /\ frames' = <<>> /\ is_active')]_vars

====
